---------------------------- MODULE Spec2Model ----------------------------
(***************************************************************************)
(* A model of the Monkey front end of sbarrios93/interpreter-book-rust:    *)
(* the Lexer of src/lexer/lexer.rs, the Parser of src/parser/mod.rs, the   *)
(* AST of src/ast/mod.rs and the token loop of src/repl/repl.rs.           *)
(*                                                                         *)
(* A byte is a one-character string; the byte 0 is the string NUL.  A      *)
(* text (String) is a sequence of bytes.  The source is drawn in Init; the *)
(* Lexer is then driven by one of three clients, chosen in Init:           *)
(*   "scan"   calls Lexer::next_token again and again (lexer tests),       *)
(*   "repl"   is the token loop of repl::start for one line,               *)
(*   "parse"  is Parser::new followed by Parser::parse_program.            *)
(***************************************************************************)
EXTENDS Integers, Sequences, FiniteSets, TLC

VARIABLES
    mode,           \* which client drives the lexer: "scan", "repl", "parse"
    lexer,          \* struct Lexer {input, position, read_position, ch}
    pc,             \* the client's position in its code
    emitted,        \* history: the next_token calls of the scan / repl client
    last_call,      \* history: the last Lexer::next_token call
    printed,        \* repl: the tokens printed so far
    current_token,  \* Parser.current_token
    peek_token,     \* Parser.peek_token
    statements,     \* parse_program's local program.statements
    identifier,     \* parse_let_statement's local identifier
    statement,      \* the value parse_statement returned, not yet pushed
    result,         \* what parse_program returned
    cur_index,      \* history: index of current_token in the token stream
    stmt_start,     \* history: cur_index when parse_statement was entered
    started         \* history: number of parse_statement calls

vars == <<mode, lexer, pc, emitted, last_call, printed, current_token,
          peek_token, statements, identifier, statement, result,
          cur_index, stmt_start, started>>

lexerVars == <<emitted, printed>>
parserVars == <<current_token, peek_token, statements, identifier,
                statement, result, cur_index, stmt_start, started>>

(***************************************************************************)
(* Bounds of the model.                                                    *)
(***************************************************************************)
\* A source is the concatenation of at most MaxPieces pieces of Pieces.
MaxPieces == 3
\* Reads past the end of the source after which the cursor is no longer
\* advanced (position and read_position are usize counters that only grow;
\* every read past the end gives the same byte 0).
MaxEofReads == 2
\* Calls of next_token the scan client makes at the end of the source.
MaxEofCalls == 2
\* Pieces of a source under FairSpec, where termination is checked.
MaxFairPieces == 2
\* The number of pieces a source of the scanner's specification is made of
MaxScanPieces == 3

(***************************************************************************)
(* Bytes and their classes.                                                *)
(***************************************************************************)
NUL == "NUL"

Lower == {"a","b","c","d","e","f","g","h","i","j","k","l","m",
          "n","o","p","q","r","s","t","u","v","w","x","y","z"}
Upper == {"A","B","C","D","E","F","G","H","I","J","K","L","M",
          "N","O","P","Q","R","S","T","U","V","W","X","Y","Z"}
Digits == {"0","1","2","3","4","5","6","7","8","9"}

IsAsciiAlphabetic(b) == b \in Lower \cup Upper
IsAsciiDigit(b) == b \in Digits
IsAsciiWhitespace(b) == b \in {" ", "\t", "\n", "\f", "\r"}
IsIdentByte(b) == IsAsciiAlphabetic(b) \/ b = "_"

(***************************************************************************)
(* enum Token.  Ident and Int carry a text; the others carry none.         *)
(***************************************************************************)
Tok(type) == [type |-> type, text |-> <<>>]
IdentTok(text) == [type |-> "Ident", text |-> text]
IntTok(text) == [type |-> "Int", text |-> text]
Illegal == Tok("Illegal")
EOF == Tok("EOF")

\* Token::token_literal: the token's surface text.
TokenLiteral(t) ==
    CASE t.type \in {"Ident", "Int"} -> t.text
      [] t.type = "Assign" -> <<"=">>
      [] t.type = "Plus" -> <<"+">>
      [] t.type = "Minus" -> <<"-">>
      [] t.type = "Bang" -> <<"!">>
      [] t.type = "Asterisk" -> <<"*">>
      [] t.type = "Slash" -> <<"/">>
      [] t.type = "LessThan" -> <<"<">>
      [] t.type = "GreaterThan" -> <<">">>
      [] t.type = "Equal" -> <<"=", "=">>
      [] t.type = "NotEqual" -> <<"!", "=">>
      [] t.type = "Comma" -> <<",">>
      [] t.type = "Semicolon" -> <<";">>
      [] t.type = "LParen" -> <<"(">>
      [] t.type = "RParen" -> <<")">>
      [] t.type = "LBrace" -> <<"{">>
      [] t.type = "RBrace" -> <<"}">>
      [] t.type = "Function" -> <<"f", "n">>
      [] t.type = "Let" -> <<"l", "e", "t">>
      [] t.type = "True" -> <<"t", "r", "u", "e">>
      [] t.type = "False" -> <<"f", "a", "l", "s", "e">>
      [] t.type = "If" -> <<"i", "f">>
      [] t.type = "Else" -> <<"e", "l", "s", "e">>
      [] t.type = "Return" -> <<"r", "e", "t", "u", "r", "n">>
      [] t.type = "Illegal" -> <<"I", "L", "L", "E", "G", "A", "L">>
      [] t.type = "EOF" -> <<"E", "O", "F">>

(***************************************************************************)
(* impl Lexer.  Each operator takes the Lexer and gives the Lexer after.  *)
(***************************************************************************)
\* F(e), with e evaluated once, before F is (a call by value)
Call(F(_), e) == CHOOSE y \in { F(x) : x \in {e} } : TRUE

\* Lexer::read_char.  Once MaxEofReads reads past the end were made the
\* counters stay as they are.
ReadChar(l) ==
    LET c == IF l.read_position >= Len(l.input)
             THEN NUL
             ELSE l.input[l.read_position + 1]
    IN  IF l.read_position >= Len(l.input) + MaxEofReads
        THEN [l EXCEPT !.ch = c]
        ELSE [l EXCEPT !.ch = c,
                       !.position = l.read_position,
                       !.read_position = l.read_position + 1]

\* Lexer::new
NewLexer(source) ==
    ReadChar([input |-> source, position |-> 0, read_position |-> 0, ch |-> NUL])

\* A peek_char that reads the byte under the cursor, not the one after it
PeekCharCurrent(l) == l.ch

\* Lexer::peek_char
PeekChar(l) ==
    IF l.read_position >= Len(l.input)
    THEN NUL
    ELSE l.input[l.read_position + 1]

\* A skip_whitespace that skips nothing
NoSkipWhitespace(l) == l

\* Lexer::skip_whitespace
RECURSIVE SkipWhitespace(_)
SkipWhitespace(l) ==
    IF IsAsciiWhitespace(l.ch) THEN Call(SkipWhitespace, ReadChar(l)) ELSE l

\* A read_ident loop that takes digits into the run
RECURSIVE ReadIdentLoopWithDigits(_)
ReadIdentLoopWithDigits(l) ==
    IF IsAsciiAlphabetic(l.ch) \/ l.ch = "_" \/ IsAsciiDigit(l.ch)
    THEN Call(ReadIdentLoopWithDigits, ReadChar(l))
    ELSE l

\* The loop of Lexer::read_ident
RECURSIVE ReadIdentLoop(_)
ReadIdentLoop(l) ==
    IF IsAsciiAlphabetic(l.ch) \/ l.ch = "_"
    THEN Call(ReadIdentLoop, ReadChar(l))
    ELSE l

\* Lexer::read_ident: the Lexer after, and input[pos..position]
ReadIdent(l) ==
    LET after == ReadIdentLoop(l)
    IN  [lexer |-> after,
         text |-> SubSeq(l.input, l.position + 1, after.position)]

\* The loop of Lexer::read_number
RECURSIVE ReadNumberLoop(_)
ReadNumberLoop(l) ==
    IF IsAsciiDigit(l.ch) THEN Call(ReadNumberLoop, ReadChar(l)) ELSE l

\* Lexer::read_number
ReadNumber(l) ==
    LET after == ReadNumberLoop(l)
    IN  [lexer |-> after,
         text |-> SubSeq(l.input, l.position + 1, after.position)]

\* Lexer::lookup_ident
LookupIdent(ident) ==
    CASE ident = <<"f", "n">> -> Tok("Function")
      [] ident = <<"l", "e", "t">> -> Tok("Let")
      [] ident = <<"t", "r", "u", "e">> -> Tok("True")
      [] ident = <<"f", "a", "l", "s", "e">> -> Tok("False")
      [] ident = <<"i", "f">> -> Tok("If")
      [] ident = <<"e", "l", "s", "e">> -> Tok("Else")
      [] ident = <<"r", "e", "t", "u", "r", "n">> -> Tok("Return")
      [] OTHER -> IdentTok(ident)

\* A table with the two parentheses exchanged
SingleByteTokenSwapped(b) ==
    CASE b = "+" -> Tok("Plus")
      [] b = "-" -> Tok("Minus")
      [] b = "*" -> Tok("Asterisk")
      [] b = "/" -> Tok("Slash")
      [] b = "<" -> Tok("LessThan")
      [] b = ">" -> Tok("GreaterThan")
      [] b = "," -> Tok("Comma")
      [] b = ";" -> Tok("Semicolon")
      [] b = "(" -> Tok("RParen")
      [] b = ")" -> Tok("LParen")
      [] b = "{" -> Tok("LBrace")
      [] b = "}" -> Tok("RBrace")
      [] b = NUL -> EOF

\* The one-byte arms of the match in Lexer::next_token
SingleByteToken(b) ==
    CASE b = "+" -> Tok("Plus")
      [] b = "-" -> Tok("Minus")
      [] b = "*" -> Tok("Asterisk")
      [] b = "/" -> Tok("Slash")
      [] b = "<" -> Tok("LessThan")
      [] b = ">" -> Tok("GreaterThan")
      [] b = "," -> Tok("Comma")
      [] b = ";" -> Tok("Semicolon")
      [] b = "(" -> Tok("LParen")
      [] b = ")" -> Tok("RParen")
      [] b = "{" -> Tok("LBrace")
      [] b = "}" -> Tok("RBrace")
      [] b = NUL -> EOF

SingleBytes == {"+", "-", "*", "/", "<", ">", ",", ";", "(", ")", "{", "}", NUL}

\* The `=` arm: one byte of lookahead
AssignOrEqual(l) ==
    IF PeekChar(l) = "="
    THEN [lexer |-> ReadChar(l), token |-> Tok("Equal")]
    ELSE [lexer |-> l, token |-> Tok("Assign")]

\* The `!` arm: one byte of lookahead
BangOrNotEqual(l) ==
    IF PeekChar(l) = "="
    THEN [lexer |-> ReadChar(l), token |-> Tok("NotEqual")]
    ELSE [lexer |-> l, token |-> Tok("Bang")]

\* The match of Lexer::next_token on the byte under the cursor s.ch.
\* panic is TRUE when it reaches unreachable!(): the process aborts and no
\* token is returned.  start is the position of the byte that was
\* classified, ch that byte.
MatchCh(s) ==
    LET base == [lexer |-> s, token |-> Illegal, panic |-> FALSE,
                 start |-> s.position, ch |-> s.ch]
    IN  CASE IsIdentByte(s.ch) ->
               LET r == ReadIdent(s)
               IN  [base EXCEPT !.lexer = r.lexer, !.token = LookupIdent(r.text)]
          [] IsAsciiDigit(s.ch) ->
               LET r == ReadNumber(s)
               IN  [base EXCEPT !.lexer = r.lexer, !.token = IntTok(r.text)]
          [] s.ch = "=" ->
               LET r == AssignOrEqual(s)
               IN  [base EXCEPT !.lexer = ReadChar(r.lexer), !.token = r.token]
          [] s.ch = "!" ->
               LET r == BangOrNotEqual(s)
               IN  [base EXCEPT !.lexer = ReadChar(r.lexer), !.token = r.token]
          [] s.ch \in SingleBytes ->
               [base EXCEPT !.lexer = ReadChar(s), !.token = SingleByteToken(s.ch)]
          [] OTHER -> [base EXCEPT !.panic = TRUE]

\* Lexer::next_token: skip_whitespace, then the match
NextToken(l) == Call(MatchCh, SkipWhitespace(l))

\* What the history keeps of a call
CallRecord(r) ==
    [start |-> r.start, end |-> r.lexer.position, ch |-> r.ch,
     token |-> r.token, panic |-> r.panic]

NoCall == [start |-> 0, end |-> 0, ch |-> NUL, token |-> Illegal, panic |-> FALSE]


(***************************************************************************)
(* The AST of src/ast/mod.rs, as the parser builds it.                     *)
(***************************************************************************)
\* struct Identifier {token, value}
Identifier(token, value) == [token |-> token, value |-> value]

\* The placeholder both parse_let_statement and parse_return_statement store
\* as the value expression
PlaceholderValue ==
    [kind |-> "Identifier", node |-> Identifier(IntTok(<<"5">>), <<"5">>)]

\* struct LetStatement, as parse_let_statement builds it
LetStatement(ident) ==
    [kind |-> "Let", token |-> Tok("Let"),
     name |-> Identifier(IdentTok(ident), ident),
     value |-> PlaceholderValue]

\* struct ReturnStatement, as parse_return_statement builds it
ReturnStatement ==
    [kind |-> "Return", token |-> Tok("Return"), value |-> PlaceholderValue]

\* struct ExpressionStatement, as parse_expression_statement builds it
ExpressionStatement(token, expression) ==
    [kind |-> "Expression", token |-> token, value |-> expression]

\* Display for Expression and Identifier: the identifier's value
RenderExpression(e) == e.node.value

\* Display for LetStatement: "let {name} = {value};"
RenderLetStatement(st) ==
    <<"l", "e", "t", " ">> \o st.name.value \o <<" ", "=", " ">>
        \o RenderExpression(st.value) \o <<";">>

\* Display for ReturnStatement: "return {return_value};"
RenderReturnStatement(st) ==
    <<"r", "e", "t", "u", "r", "n", " ">> \o RenderExpression(st.value) \o <<";">>

\* Display for ExpressionStatement: its expression
RenderExpressionStatement(st) == RenderExpression(st.value)

\* Display for Statement
RenderStatement(st) ==
    CASE st.kind = "Let" -> RenderLetStatement(st)
      [] st.kind = "Return" -> RenderReturnStatement(st)
      [] st.kind = "Expression" -> RenderExpressionStatement(st)

\* Display for Program: the statements' texts, one after the other
RECURSIVE RenderProgram(_)
RenderProgram(stmts) ==
    IF stmts = <<>> THEN <<>>
    ELSE RenderStatement(Head(stmts)) \o RenderProgram(Tail(stmts))

\* token_literal() of a statement: its token's literal
StatementTokenLiteral(st) == TokenLiteral(st.token)

(***************************************************************************)
(* ParserError and the Result of parse_program.                            *)
(***************************************************************************)
UnexpectedToken(want, got) ==
    [kind |-> "UnexpectedToken", want |-> want, got |-> got, token |-> Illegal]
MissingIdentifier(token) ==
    [kind |-> "MissingIdentifier", want |-> <<>>, got |-> <<>>, token |-> token]
PrefixExpressionNotImplemented(token) ==
    [kind |-> "PrefixExpressionNotImplemented", want |-> <<>>, got |-> <<>>,
     token |-> token]

NoResult == [kind |-> "None"]
Ok(program) == [kind |-> "Ok", program |-> program]
Err(error) == [kind |-> "Err", error |-> error]

(***************************************************************************)
(* The sources.                                                            *)
(***************************************************************************)
Pieces ==
    { <<"=">>, <<"!">>, <<";">>, <<"x">>, <<"5">>, <<" ">>, <<"+">>,
      <<"@">>, <<NUL>>,
      <<"i", "f">>,
      <<"l", "e", "t", " ">>,
      <<"l", "e", "t", " ", "x", " ">>,
      <<"l", "e", "t", " ", "x", "=", "5", ";">>,
      <<"l", "e", "t", " ", "y", "_", " ", "=", " ", "x", "+", "5", ";", "\n">>,
      <<"r", "e", "t", "u", "r", "n">>,
      <<"r", "e", "t", "u", "r", "n", " ", "5", ";">> }

RECURSIVE Flatten(_)
Flatten(ps) == IF ps = <<>> THEN <<>> ELSE Head(ps) \o Flatten(Tail(ps))

SourcesOf(max) ==
    { Flatten(ps) : ps \in UNION { [1..n -> Pieces] : n \in 0..max } }

Sources == SourcesOf(MaxPieces)

(***************************************************************************)
(* The token stream of a source: what repeated next_token calls return,    *)
(* up to the EOF returned at the end of the source or to the abort.        *)
(***************************************************************************)
RECURSIVE ScanFrom(_)
ScanFrom(st) ==
    LET r == NextToken(st.lexer)
    IN  IF r.panic THEN [tokens |-> st.tokens, aborted |-> TRUE]
        ELSE IF r.token = EOF /\ r.start >= Len(st.lexer.input)
             THEN [tokens |-> Append(st.tokens, r.token), aborted |-> FALSE]
             ELSE Call(ScanFrom, [lexer |-> r.lexer,
                                  tokens |-> Append(st.tokens, r.token)])

Scan(source) == ScanFrom([lexer |-> NewLexer(source), tokens |-> <<>>])

Min(a, b) == IF a <= b THEN a ELSE b

(***************************************************************************)
(* Init                                                                    *)
(***************************************************************************)
Init ==
    /\ mode \in {"scan", "repl", "parse"}
    /\ \E source \in Sources : lexer = NewLexer(source)
    /\ pc = CASE mode = "scan" -> "scan"
              [] mode = "repl" -> "read_line"
              [] mode = "parse" -> "new"
    /\ emitted = <<>>
    /\ last_call = NoCall
    /\ printed = <<>>
    /\ current_token = Illegal
    /\ peek_token = Illegal
    /\ statements = <<>>
    /\ identifier = <<>>
    /\ statement = NoResult
    /\ result = NoResult
    /\ cur_index = 0
    /\ stmt_start = 0
    /\ started = 0


(***************************************************************************)
(* The scan client: next_token called again and again, as the tests of     *)
(* src/lexer/lexer.rs do.  It stops after MaxEofCalls calls made at the    *)
(* end of the source.                                                      *)
(***************************************************************************)
EofCalls == Cardinality({ i \in DOMAIN emitted : emitted[i].start >= Len(lexer.input) })

ScanNextToken ==
    /\ mode = "scan"
    /\ pc = "scan"
    /\ EofCalls < MaxEofCalls
    /\ LET r == NextToken(lexer)
       IN  /\ last_call' = CallRecord(r)
           /\ emitted' = Append(emitted, CallRecord(r))
           /\ IF r.panic
              THEN pc' = "panic" /\ UNCHANGED lexer
              ELSE pc' = "scan" /\ lexer' = r.lexer
    /\ UNCHANGED <<mode, printed>>
    /\ UNCHANGED parserVars

(***************************************************************************)
(* repl::start, for one line.                                              *)
(***************************************************************************)
\* line.trim().is_empty() over the bytes of the model
TrimIsEmpty(line) == \A i \in DOMAIN line : IsAsciiWhitespace(line[i])

\* read_line, the empty-line break and Lexer::new
ReplReadLine ==
    /\ mode = "repl"
    /\ pc = "read_line"
    /\ IF TrimIsEmpty(lexer.input)
       THEN pc' = "exit" /\ UNCHANGED lexer
       ELSE pc' = "tokens" /\ lexer' = NewLexer(lexer.input)
    /\ UNCHANGED <<mode, emitted, last_call, printed>>
    /\ UNCHANGED parserVars

\* One turn of `while let Ok(token) = lexer.next_token()`
ReplNextToken ==
    /\ mode = "repl"
    /\ pc = "tokens"
    /\ LET r == NextToken(lexer)
       IN  /\ last_call' = CallRecord(r)
           /\ emitted' = Append(emitted, CallRecord(r))
           /\ IF r.panic
              THEN pc' = "panic" /\ UNCHANGED <<lexer, printed>>
              ELSE /\ lexer' = r.lexer
                   /\ IF r.token = EOF
                      THEN pc' = "prompt" /\ UNCHANGED printed
                      ELSE pc' = "tokens" /\ printed' = Append(printed, r.token)
    /\ UNCHANGED mode
    /\ UNCHANGED parserVars

(***************************************************************************)
(* impl Parser                                                             *)
(***************************************************************************)
\* The index in the token stream of the token after the one at i; the stream
\* is EOF from its last index on.
NextIndex(i) == Min(i + 1, Len(Scan(lexer.input).tokens))

\* A next_token that stores the new token as current_token too
AdvanceDuplicating(nextpc) ==
    LET r == NextToken(lexer)
    IN  /\ last_call' = CallRecord(r)
        /\ IF r.panic
           THEN /\ pc' = "panic"
                /\ UNCHANGED <<lexer, current_token, peek_token, cur_index>>
           ELSE /\ pc' = nextpc
                /\ lexer' = r.lexer
                /\ current_token' = r.token
                /\ peek_token' = r.token
                /\ cur_index' = NextIndex(cur_index)

\* Parser::next_token: lexer.next_token()?, then current <- peek <- token.
\* With a panic in the lexer the process aborts; the parser is as before.
Advance(nextpc) ==
    LET r == NextToken(lexer)
    IN  /\ last_call' = CallRecord(r)
        /\ IF r.panic
           THEN /\ pc' = "panic"
                /\ UNCHANGED <<lexer, current_token, peek_token, cur_index>>
           ELSE /\ pc' = nextpc
                /\ lexer' = r.lexer
                /\ current_token' = peek_token
                /\ peek_token' = r.token
                /\ cur_index' = NextIndex(cur_index)

\* Parser::new: two next_token calls fill current_token and peek_token
ParserNew ==
    /\ mode = "parse"
    /\ pc = "new"
    /\ LET r1 == NextToken(lexer)
           r2 == NextToken(r1.lexer)
       IN  IF r1.panic
           THEN /\ pc' = "panic"
                /\ last_call' = CallRecord(r1)
                /\ UNCHANGED <<lexer, current_token, peek_token, cur_index>>
           ELSE IF r2.panic
           THEN /\ pc' = "panic"
                /\ last_call' = CallRecord(r2)
                /\ lexer' = r1.lexer
                /\ current_token' = peek_token
                /\ peek_token' = r1.token
                /\ UNCHANGED cur_index
           ELSE /\ pc' = "parse_program"
                /\ last_call' = CallRecord(r2)
                /\ lexer' = r2.lexer
                /\ current_token' = r1.token
                /\ peek_token' = r2.token
                /\ cur_index' = 1
    /\ UNCHANGED <<mode, emitted, printed>>
    /\ UNCHANGED <<statements, identifier, statement, result, stmt_start, started>>

\* Parser::current_token_is
CurrentTokenIs(token) == current_token = token

\* Parser::peek_token_is
PeekTokenIs(token) == peek_token = token

\* A parse_program that parses one statement before its first test for EOF
ParseProgramDoWhile ==
    /\ mode = "parse"
    /\ pc = "parse_program"
    /\ IF current_token # EOF \/ started = 0
       THEN pc' = "parse_statement" /\ UNCHANGED result
       ELSE pc' = "done" /\ result' = Ok(statements)
    /\ UNCHANGED <<mode, lexer, emitted, last_call, printed>>
    /\ UNCHANGED <<current_token, peek_token, statements, identifier, statement,
                   cur_index, stmt_start, started>>

\* Parser::parse_program: the test of the while loop, and Ok(program)
ParseProgram ==
    /\ mode = "parse"
    /\ pc = "parse_program"
    /\ IF current_token # EOF
       THEN pc' = "parse_statement" /\ UNCHANGED result
       ELSE pc' = "done" /\ result' = Ok(statements)
    /\ UNCHANGED <<mode, lexer, emitted, last_call, printed>>
    /\ UNCHANGED <<current_token, peek_token, statements, identifier, statement,
                   cur_index, stmt_start, started>>

\* Parser::parse_statement: the match on current_token
StatementParser(token) ==
    CASE token = Tok("Let") -> "parse_let_statement"
      [] token = Tok("Return") -> "parse_return_statement"
      [] OTHER -> "parse_expression_statement"

ParseStatement ==
    /\ mode = "parse"
    /\ pc = "parse_statement"
    /\ pc' = StatementParser(current_token)
    /\ stmt_start' = cur_index
    /\ started' = started + 1
    /\ UNCHANGED <<mode, lexer, emitted, last_call, printed>>
    /\ UNCHANGED <<current_token, peek_token, statements, identifier, statement,
                   result, cur_index>>

\* A parse_program that returns the statements parsed before the error
FailPartial(error) ==
    /\ pc' = "error"
    /\ result' = Ok(statements)

\* A `?` or bail! that leaves parse_statement with an error: parse_program
\* returns it
Fail(error) ==
    /\ pc' = "error"
    /\ result' = Err(error)

\* parse_let_statement: self.next_token()?
LetNextToken ==
    /\ mode = "parse"
    /\ pc = "parse_let_statement"
    /\ Advance("read_identifier")
    /\ UNCHANGED <<mode, emitted, printed>>
    /\ UNCHANGED <<statements, identifier, statement, result, stmt_start, started>>

\* parse_let_statement: let identifier = self.read_identifier()?.clone()
ReadIdentifier ==
    /\ mode = "parse"
    /\ pc = "read_identifier"
    /\ IF current_token.type = "Ident"
       THEN /\ identifier' = current_token.text
            /\ pc' = "expect_peek"
            /\ UNCHANGED result
       ELSE /\ Fail(MissingIdentifier(current_token))
            /\ UNCHANGED identifier
    /\ UNCHANGED <<mode, lexer, emitted, last_call, printed>>
    /\ UNCHANGED <<current_token, peek_token, statements, statement,
                   cur_index, stmt_start, started>>

\* An expect_peek that advances before it fails
ExpectPeekAdvancing ==
    /\ mode = "parse"
    /\ pc = "expect_peek"
    /\ LET r == NextToken(lexer)
       IN  /\ last_call' = CallRecord(r)
           /\ IF r.panic
              THEN /\ pc' = "panic"
                   /\ UNCHANGED <<lexer, current_token, peek_token, cur_index, result>>
              ELSE /\ lexer' = r.lexer
                   /\ current_token' = peek_token
                   /\ peek_token' = r.token
                   /\ cur_index' = NextIndex(cur_index)
                   /\ IF PeekTokenIs(Tok("Assign"))
                      THEN pc' = "let_value" /\ UNCHANGED result
                      ELSE Fail(UnexpectedToken(TokenLiteral(Tok("Assign")),
                                                TokenLiteral(peek_token)))
    /\ UNCHANGED <<mode, emitted, printed>>
    /\ UNCHANGED <<statements, identifier, statement, stmt_start, started>>

\* parse_let_statement: self.expect_peek(Token::Assign)?
ExpectPeek ==
    /\ mode = "parse"
    /\ pc = "expect_peek"
    /\ IF PeekTokenIs(Tok("Assign"))
       THEN /\ Advance("let_value")
            /\ UNCHANGED result
       ELSE /\ Fail(UnexpectedToken(TokenLiteral(Tok("Assign")),
                                    TokenLiteral(peek_token)))
            /\ UNCHANGED <<lexer, last_call, current_token, peek_token, cur_index>>
    /\ UNCHANGED <<mode, emitted, printed>>
    /\ UNCHANGED <<statements, identifier, statement, stmt_start, started>>

\* parse_let_statement: the self.next_token()? after expect_peek
LetValueNextToken ==
    /\ mode = "parse"
    /\ pc = "let_value"
    /\ Advance("let_skip")
    /\ UNCHANGED <<mode, emitted, printed>>
    /\ UNCHANGED <<statements, identifier, statement, result, stmt_start, started>>

\* A skip loop of parse_let_statement that ends at an integer literal too
LetSkipToInt ==
    /\ mode = "parse"
    /\ pc = "let_skip"
    /\ IF ~CurrentTokenIs(Tok("Semicolon")) /\ current_token.type # "Int"
       THEN /\ Advance("let_skip")
            /\ UNCHANGED statement
       ELSE /\ statement' = LetStatement(identifier)
            /\ pc' = "push"
            /\ UNCHANGED <<lexer, last_call, current_token, peek_token, cur_index>>
    /\ UNCHANGED <<mode, emitted, printed>>
    /\ UNCHANGED <<statements, identifier, result, stmt_start, started>>

\* parse_let_statement: one test of `while !current_token_is(Semicolon)`,
\* with the loop's body or with Ok(LetStatement {..})
LetSkip ==
    /\ mode = "parse"
    /\ pc = "let_skip"
    /\ IF ~CurrentTokenIs(Tok("Semicolon"))
       THEN /\ Advance("let_skip")
            /\ UNCHANGED statement
       ELSE /\ statement' = LetStatement(identifier)
            /\ pc' = "push"
            /\ UNCHANGED <<lexer, last_call, current_token, peek_token, cur_index>>
    /\ UNCHANGED <<mode, emitted, printed>>
    /\ UNCHANGED <<statements, identifier, result, stmt_start, started>>

\* parse_return_statement: one test of `while !current_token_is(Semicolon)`,
\* with the loop's body or with Ok(ReturnStatement {..})
ReturnSkip ==
    /\ mode = "parse"
    /\ pc = "parse_return_statement"
    /\ IF ~CurrentTokenIs(Tok("Semicolon"))
       THEN /\ Advance("parse_return_statement")
            /\ UNCHANGED statement
       ELSE /\ statement' = ReturnStatement
            /\ pc' = "push"
            /\ UNCHANGED <<lexer, last_call, current_token, peek_token, cur_index>>
    /\ UNCHANGED <<mode, emitted, printed>>
    /\ UNCHANGED <<statements, identifier, result, stmt_start, started>>

\* enum OperatorPrecedence, with the order PartialOrd derives
OperatorPrecedence(p) ==
    CASE p = "Lowest" -> 0
      [] p = "Equals" -> 1
      [] p = "LessGreater" -> 2
      [] p = "Sum" -> 3
      [] p = "Product" -> 4
      [] p = "Prefix" -> 5
      [] p = "Call" -> 6

\* Parser::parse_identifier
ParseIdentifier(token) ==
    [kind |-> "Identifier", node |-> Identifier(token, TokenLiteral(token))]

\* A parse_prefix with a handler for integer literals as well
ParsePrefixWithInt(token) ==
    IF token.type \in {"Ident", "Int"}
    THEN [ok |-> TRUE, expression |-> ParseIdentifier(token)]
    ELSE [ok |-> FALSE, error |-> PrefixExpressionNotImplemented(token)]

\* Parser::parse_prefix: an expression for an Ident, an error for the rest
ParsePrefix(token) ==
    IF token.type = "Ident"
    THEN [ok |-> TRUE, expression |-> ParseIdentifier(token)]
    ELSE [ok |-> FALSE, error |-> PrefixExpressionNotImplemented(token)]

\* Parser::parse_expression: the prefix expression; precedence is not used
ParseExpression(token, precedence) == ParsePrefix(token)

\* The token parse_expression_statement stores: current_token when the
\* struct is built, which is after the optional `;` was consumed
ExpressionStatementToken(before, after) == after

\* Parser::parse_expression_statement
ParseExpressionStatement ==
    /\ mode = "parse"
    /\ pc = "parse_expression_statement"
    /\ LET e == ParseExpression(current_token, "Lowest")
       IN  IF ~e.ok
           THEN /\ Fail(e.error)
                /\ UNCHANGED <<lexer, last_call, current_token, peek_token,
                               cur_index, statement>>
           ELSE /\ IF PeekTokenIs(Tok("Semicolon"))
                   THEN Advance("push")
                   ELSE /\ pc' = "push"
                        /\ UNCHANGED <<lexer, last_call, current_token,
                                       peek_token, cur_index>>
                /\ statement' =
                     IF pc' = "panic" THEN statement
                     ELSE ExpressionStatement(
                              ExpressionStatementToken(current_token, current_token'),
                              e.expression)
                /\ UNCHANGED result
    /\ UNCHANGED <<mode, emitted, printed>>
    /\ UNCHANGED <<statements, identifier, stmt_start, started>>

\* A push at the front of the statements
PushFront(stmts, st) == <<st>> \o stmts

\* program.statements.push(statement)
Push(stmts, st) == Append(stmts, st)

\* parse_program: the body of the while loop after parse_statement
PushStatement ==
    /\ mode = "parse"
    /\ pc = "push"
    /\ statements' = Push(statements, statement)
    /\ Advance("parse_program")
    /\ UNCHANGED <<mode, emitted, printed>>
    /\ UNCHANGED <<identifier, statement, result, stmt_start, started>>

(***************************************************************************)
(* The specification                                                       *)
(***************************************************************************)
Next ==
    \/ ScanNextToken
    \/ ReplReadLine
    \/ ReplNextToken
    \/ ParserNew
    \/ ParseProgram
    \/ ParseStatement
    \/ LetNextToken
    \/ ReadIdentifier
    \/ ExpectPeek
    \/ LetValueNextToken
    \/ LetSkip
    \/ ReturnSkip
    \/ ParseExpressionStatement
    \/ PushStatement

Spec == Init /\ [][Next]_vars

\* The parser alone, as a sequential program: a step that can be taken is
\* taken.
ParseInit == Init /\ mode = "parse" /\ lexer.input \in SourcesOf(MaxFairPieces)

ParseNext ==
    \/ ParserNew
    \/ ParseProgram
    \/ ParseStatement
    \/ LetNextToken
    \/ ReadIdentifier
    \/ ExpectPeek
    \/ LetValueNextToken
    \/ LetSkip
    \/ ReturnSkip
    \/ ParseExpressionStatement
    \/ PushStatement

FairSpec == ParseInit /\ [][ParseNext]_vars /\ WF_vars(ParseNext)

\* The scanner alone, over sources made of its lexemes: each operator and
\* delimiter byte, the keywords, identifiers, a digit, the whitespace bytes,
\* an unrecognized byte and the byte 0.
ScanPieces ==
    { <<"=">>, <<"+">>, <<"-">>, <<"!">>, <<"*">>, <<"/">>, <<"<">>, <<">">>,
      <<",">>, <<";">>, <<"(">>, <<")">>, <<"{">>, <<"}">>,
      <<"f", "n">>, <<"l", "e", "t">>, <<"t", "r", "u", "e">>,
      <<"f", "a", "l", "s", "e">>, <<"i", "f">>, <<"e", "l", "s", "e">>,
      <<"r", "e", "t", "u", "r", "n">>,
      <<"x">>, <<"L", "e", "t">>, <<"_">>, <<"5">>,
      <<" ">>, <<"\t">>, <<"\n">>, <<"\r">>,
      <<"@">>, <<NUL>> }

ScanSources ==
    { Flatten(ps) : ps \in UNION { [1..n -> ScanPieces] : n \in 0..MaxScanPieces } }

ScanInit ==
    /\ mode = "scan"
    /\ \E source \in ScanSources : lexer = NewLexer(source)
    /\ pc = "scan"
    /\ emitted = <<>>
    /\ last_call = NoCall
    /\ printed = <<>>
    /\ current_token = Illegal
    /\ peek_token = Illegal
    /\ statements = <<>>
    /\ identifier = <<>>
    /\ statement = NoResult
    /\ result = NoResult
    /\ cur_index = 0
    /\ stmt_start = 0
    /\ started = 0

ScanNext == ScanNextToken

ScanSpec == ScanInit /\ [][ScanNext]_vars

(***************************************************************************)
(* What the claims are stated over.                                        *)
(***************************************************************************)
\* The token stream of the source
Toks == Scan(lexer.input)

\* The i-th token of the stream (from 1); past its end the stream repeats
\* its last token, the EOF of the end of the source
TokAt(i) == Toks.tokens[Min(i, Len(Toks.tokens))]

\* The scanner emitted an i-th token (it did not abort before)
HasTok(i) == IF Toks.aborted THEN i <= Len(Toks.tokens) ELSE TRUE

\* The byte at offset k of the source (from 0), 0 past the end
ByteAt(k) == IF k < Len(lexer.input) THEN lexer.input[k + 1] ELSE NUL

\* The bytes next_token has an arm for
Recognized(b) ==
    \/ IsIdentByte(b)
    \/ IsAsciiDigit(b)
    \/ b \in {"=", "+", "-", "!", "*", "/", "<", ">", ",", ";", "(", ")", "{", "}"}
    \/ b = NUL

\* The next_token calls the history holds
Calls == { emitted[i] : i \in DOMAIN emitted } \cup {last_call}

Semicolon == Tok("Semicolon")

(***************************************************************************)
(* C1: Lexer::next_token never aborts: for a byte that is no letter,        *)
(* underscore, digit, operator or delimiter byte and not the end sentinel  *)
(* it returns Token::Illegal and moves the cursor past that one byte.      *)
(***************************************************************************)
C1_UnrecognizedByteIsIllegal ==
    /\ pc # "panic"
    /\ \A c \in Calls :
          /\ ~c.panic
          /\ ~Recognized(c.ch) => c.token = Illegal /\ c.end = c.start + 1

(***************************************************************************)
(* C2: parse_program ends on every source: it returns a Program or the     *)
(* first ParserError, also when a let or return statement has no `;`       *)
(* before the end of the source.  (An abort of the process is counted as   *)
(* an end here, so that what is left is the loop that never ends.)         *)
(***************************************************************************)
C2_ParseProgramTerminates ==
    (mode = "parse") => <>(pc \in {"done", "error", "panic"})

(***************************************************************************)
(* C3: once next_token returned EOF every later call returns EOF, and EOF  *)
(* is returned only with the cursor past the last byte of the source.      *)
(***************************************************************************)
C3_EndOfInputIsTerminal ==
    /\ \A i, j \in DOMAIN emitted :
          (i < j /\ emitted[i].token = EOF) => emitted[j].token = EOF
    /\ \A c \in Calls : c.token = EOF => c.start >= Len(lexer.input)


(***************************************************************************)
(* Well-formed let / return sources, for C4.  The tokens before the final  *)
(* EOF are cut after each `;`.                                             *)
(***************************************************************************)
\* A token stream without its final EOF
Body(tokens) == SubSeq(tokens, 1, Len(tokens) - 1)

\* The indices of the `;` tokens of body from index i on, ascending
RECURSIVE SemicolonsFrom(_, _)
SemicolonsFrom(body, i) ==
    IF i > Len(body) THEN <<>>
    ELSE IF body[i] = Semicolon THEN <<i>> \o SemicolonsFrom(body, i + 1)
    ELSE SemicolonsFrom(body, i + 1)

\* The source statements of body: it is cut after each `;`
SourceStatements(body) ==
    LET semis == Call(LAMBDA b : SemicolonsFrom(b, 1), body)
    IN  [k \in DOMAIN semis |->
            SubSeq(body, IF k = 1 THEN 1 ELSE semis[k - 1] + 1, semis[k])]

\* `let <identifier> = <tokens> ;`
IsLetSource(seg) ==
    /\ Len(seg) >= 4
    /\ seg[1] = Tok("Let")
    /\ seg[2].type = "Ident"
    /\ seg[3] = Tok("Assign")

\* `return <tokens> ;`
IsReturnSource(seg) == Len(seg) >= 2 /\ seg[1] = Tok("Return")

\* The scanned source is a sequence of well-formed let and return statements
WellFormed(scanned, segs) ==
    /\ ~scanned.aborted
    /\ Len(scanned.tokens) > 1 =>
          scanned.tokens[Len(scanned.tokens) - 1] = Semicolon
    /\ \A k \in DOMAIN segs : IsLetSource(segs[k]) \/ IsReturnSource(segs[k])

\* The statement node st is what the source statement seg asks for
Matches(st, seg) ==
    IF IsLetSource(seg)
    THEN /\ st.kind = "Let"
         /\ st.name.value = seg[2].text
         /\ StatementTokenLiteral(st) = <<"l", "e", "t">>
    ELSE /\ st.kind = "Return"
         /\ StatementTokenLiteral(st) = <<"r", "e", "t", "u", "r", "n">>

\* The statements parsed so far, and the Program once returned, are what a
\* well-formed source asks for
InSourceOrder(scanned) ==
    LET segs == Call(SourceStatements, Body(scanned.tokens))
    IN  WellFormed(scanned, segs) =>
            /\ pc \notin {"error", "panic"}
            /\ Len(statements) <= Len(segs)
            /\ \A i \in DOMAIN statements : Matches(statements[i], segs[i])
            /\ pc = "done" =>
                  /\ result = Ok(statements)
                  /\ Len(result.program) = Len(segs)

(***************************************************************************)
(* C4: for a source of n well-formed let / return statements parse_program *)
(* returns a Program of exactly n statements, in source order, the i-th a  *)
(* Let named as the i-th source statement's identifier or a Return with    *)
(* the literal "return", as the i-th source statement is.                  *)
(***************************************************************************)
C4_WellFormedStatementsInOrder ==
    mode = "parse" => Call(InSourceOrder, Toks)

C4_Witness ==
    /\ mode = "parse"
    /\ pc = "done"
    /\ ~Toks.aborted
    /\ Len(result.program) = 3
    /\ result.program[1].kind = "Let"
    /\ result.program[1].name.value = <<"x">>
    /\ result.program[2].kind = "Return"
    /\ result.program[3].kind = "Let"
    /\ result.program[3].name.value = <<"y", "_">>

(***************************************************************************)
(* The error a statement that starts at token i must end in, for C5.       *)
(***************************************************************************)
NoError == [kind |-> "NoError", want |-> <<>>, got |-> <<>>, token |-> Illegal]

ErrorOfStatementAt(i) ==
    CASE TokAt(i) = Tok("Let") /\ TokAt(i + 1).type # "Ident" ->
             MissingIdentifier(TokAt(i + 1))
      [] TokAt(i) = Tok("Let") /\ TokAt(i + 1).type = "Ident"
             /\ TokAt(i + 2) # Tok("Assign") ->
             UnexpectedToken(<<"=">>, TokenLiteral(TokAt(i + 2)))
      [] TokAt(i) \notin {Tok("Let"), Tok("Return")} /\ TokAt(i).type # "Ident" ->
             PrefixExpressionNotImplemented(TokAt(i))
      [] OTHER -> NoError

(***************************************************************************)
(* C5: the first syntax error is fatal.  A step that ends statement k in   *)
(* an error makes parse_program return exactly that statement's error and  *)
(* no Program, with the k-1 statements parsed before it dropped, and from  *)
(* then on nothing is parsed: no step leaves the error state.              *)
(***************************************************************************)
C5_FirstErrorIsFatal ==
    [][ /\ pc # "error"
        /\ pc' = "error" =>
              /\ result' = Err(ErrorOfStatementAt(stmt_start'))
              /\ started' = Len(statements') + 1
              /\ stmt_start' = cur_index' \/ stmt_start' + 1 = cur_index'
      ]_vars

C5_Witness ==
    /\ pc = "error"
    /\ result.kind = "Err"
    /\ started = 3
    /\ Len(statements) = 2

(***************************************************************************)
(* C6: `let <identifier>` followed by a token that is not `=` fails with   *)
(* UnexpectedToken, want "=" and got the literal of that token (for        *)
(* `let x 5;`: want "=", got "5"); the failed check leaves current_token   *)
(* on the identifier and peek_token on the token found.                    *)
(***************************************************************************)
LetWithoutAssignAt(i) ==
    /\ i > 0
    /\ TokAt(i) = Tok("Let")
    /\ TokAt(i + 1).type = "Ident"
    /\ HasTok(i + 2)
    /\ TokAt(i + 2) # Tok("Assign")

C6_MissingAssignIsUnexpectedToken ==
    (mode = "parse" /\ LetWithoutAssignAt(stmt_start)) =>
        /\ pc \in {"parse_let_statement", "read_identifier", "expect_peek", "error"}
        /\ pc = "error" =>
              /\ result.kind = "Err"
              /\ result.error.kind = "UnexpectedToken"
              /\ result.error.want = <<"=">>
              /\ result.error.got = TokenLiteral(TokAt(stmt_start + 2))
              /\ current_token = TokAt(stmt_start + 1)
              /\ peek_token = TokAt(stmt_start + 2)
              /\ cur_index = stmt_start + 1

\* `let x 5;`
C6_Witness ==
    /\ mode = "parse"
    /\ lexer.input = <<"l", "e", "t", " ", "x", " ", "5", ";">>
    /\ pc = "error"
    /\ result.error = UnexpectedToken(<<"=">>, <<"5">>)
    /\ current_token = IdentTok(<<"x">>)
    /\ peek_token = IntTok(<<"5">>)

(***************************************************************************)
(* C7: `let` followed by a token that is not an Identifier fails with      *)
(* MissingIdentifier carrying that token, and the `=` check is never       *)
(* reached.                                                                *)
(***************************************************************************)
C7_MissingIdentifier ==
    (/\ mode = "parse"
     /\ stmt_start > 0
     /\ TokAt(stmt_start) = Tok("Let")
     /\ TokAt(stmt_start + 1).type # "Ident") =>
        /\ pc \in {"parse_let_statement", "read_identifier", "error"}
        /\ pc = "error" => result = Err(MissingIdentifier(TokAt(stmt_start + 1)))

(***************************************************************************)
(* C8: a statement whose first token is neither `let`, `return` nor an     *)
(* Identifier fails with PrefixExpressionNotImplemented carrying exactly   *)
(* that token, the current token.                                          *)
(***************************************************************************)
C8_PrefixExpressionNotImplemented ==
    (/\ mode = "parse"
     /\ stmt_start > 0
     /\ TokAt(stmt_start) \notin {Tok("Let"), Tok("Return")}
     /\ TokAt(stmt_start).type # "Ident") =>
        /\ pc \in {"parse_expression_statement", "error"}
        /\ pc = "error" =>
              /\ result = Err(PrefixExpressionNotImplemented(TokAt(stmt_start)))
              /\ current_token = TokAt(stmt_start)
              /\ cur_index = stmt_start

\* `let x=5;` and then a statement that starts with `if`
C8_Witness ==
    /\ mode = "parse"
    /\ pc = "error"
    /\ Len(statements) = 1
    /\ result = Err(PrefixExpressionNotImplemented(Tok("If")))

(***************************************************************************)
(* C9: for a source that is one identifier, with or without one `;` after  *)
(* it, parse_program returns exactly one ExpressionStatement whose token   *)
(* literal is the identifier's text and whose expression renders as that   *)
(* text.                                                                   *)
(***************************************************************************)
SingleIdentifierSource ==
    /\ ~Toks.aborted
    /\ Toks.tokens[1].type = "Ident"
    /\ \/ Toks.tokens = <<Toks.tokens[1], EOF>>
       \/ Toks.tokens = <<Toks.tokens[1], Semicolon, EOF>>
    /\ \A k \in DOMAIN lexer.input : lexer.input[k] # NUL

C9_SingleIdentifierStatement ==
    (mode = "parse" /\ SingleIdentifierSource) =>
        /\ pc \notin {"error", "panic"}
        /\ pc = "done" =>
              /\ Len(result.program) = 1
              /\ result.program[1].kind = "Expression"
              /\ result.program[1].token = Toks.tokens[1]
              /\ StatementTokenLiteral(result.program[1]) = Toks.tokens[1].text
              /\ RenderExpression(result.program[1].value) = Toks.tokens[1].text

(***************************************************************************)
(* C10: `==` is the one token Equal and `!=` the one token NotEqual; `=`   *)
(* and `!` not followed at once by `=` are Assign and Bang, and then the   *)
(* byte that follows is not consumed: the next call classifies it.         *)
(***************************************************************************)
\* The call c classified a `=` or a `!` as the claim says
LookaheadCall(c) ==
    IF ByteAt(c.start + 1) = "="
    THEN /\ c.token = (IF c.ch = "=" THEN Tok("Equal") ELSE Tok("NotEqual"))
         /\ c.end = c.start + 2
    ELSE /\ c.token = (IF c.ch = "=" THEN Tok("Assign") ELSE Tok("Bang"))
         /\ c.end = c.start + 1

\* The call d, made right after the call c, classified the first byte at or
\* after c.end that is not whitespace
ClassifiesNext(c, d) ==
    /\ d.start >= c.end
    /\ d.ch = ByteAt(d.start)
    /\ \A k \in c.end .. (d.start - 1) : IsAsciiWhitespace(ByteAt(k))

C10_TwoByteOperators ==
    /\ \A c \in Calls :
          /\ c.ch \in {"=", "!"} => LookaheadCall(c)
          /\ c.token \in {Tok("Equal"), Tok("NotEqual"), Tok("Assign"), Tok("Bang")}
                => c.ch \in {"=", "!"} /\ ByteAt(c.start) = c.ch
    /\ \A i \in DOMAIN emitted :
          (i > 1 /\ emitted[i - 1].ch \in {"=", "!"}) =>
              ClassifiesNext(emitted[i - 1], emitted[i])

\* `===` scanned as Equal, Assign
C10_Witness ==
    /\ mode = "scan"
    /\ lexer.input = <<"=", "=", "=">>
    /\ Len(emitted) = 3
    /\ emitted[1].token = Tok("Equal")
    /\ emitted[2].token = Tok("Assign")
    /\ emitted[2].start = 2
    /\ emitted[3].token = EOF


(***************************************************************************)
(* The fixed table of the one-byte operators and delimiters, for C11.      *)
(***************************************************************************)
OperatorBytes ==
    {"=", "+", "-", "!", "*", "/", "<", ">", ",", ";", "(", ")", "{", "}"}

OperatorToken(b) ==
    CASE b = "=" -> Tok("Assign")
      [] b = "+" -> Tok("Plus")
      [] b = "-" -> Tok("Minus")
      [] b = "!" -> Tok("Bang")
      [] b = "*" -> Tok("Asterisk")
      [] b = "/" -> Tok("Slash")
      [] b = "<" -> Tok("LessThan")
      [] b = ">" -> Tok("GreaterThan")
      [] b = "," -> Tok("Comma")
      [] b = ";" -> Tok("Semicolon")
      [] b = "(" -> Tok("LParen")
      [] b = ")" -> Tok("RParen")
      [] b = "{" -> Tok("LBrace")
      [] b = "}" -> Tok("RBrace")

\* The source is a sequence of operator and delimiter bytes
OperatorSource == \A k \in DOMAIN lexer.input : lexer.input[k] \in OperatorBytes

\* No `=` or `!` of the source is immediately followed by `=`
NoDoubledForm ==
    \A k \in DOMAIN lexer.input :
        lexer.input[k] \in {"=", "!"} => ByteAt(k) # "="

\* The calls made so far returned one token per byte, in order, and EOF
\* after the last byte
OneTokenPerByte ==
    \A i \in DOMAIN emitted :
        /\ ~emitted[i].panic
        /\ IF i <= Len(lexer.input)
           THEN /\ emitted[i].token = OperatorToken(lexer.input[i])
                /\ emitted[i].start = i - 1
                /\ emitted[i].end = i
           ELSE emitted[i].token = EOF

(***************************************************************************)
(* C11, as stated: for a source that is a sequence of the one-byte         *)
(* operators and delimiters the scanner emits one token per byte, in       *)
(* order, each the token the table gives the byte, and then EOF.           *)
(***************************************************************************)
C11_OneTokenPerOperatorByte ==
    OperatorSource => OneTokenPerByte

(***************************************************************************)
(* C11, amended: the same, for a source of one-byte operators and          *)
(* delimiters in which no `=` or `!` is immediately followed by `=`.       *)
(***************************************************************************)
C11_OneTokenPerByteWithoutDoubledForm ==
    (OperatorSource /\ NoDoubledForm) => OneTokenPerByte

\* `=+(` scanned to its end
C11_Witness ==
    /\ lexer.input = <<"=", "+", "(">>
    /\ Len(emitted) = 4
    /\ emitted[1].token = Tok("Assign")
    /\ emitted[2].token = Tok("Plus")
    /\ emitted[3].token = Tok("LParen")
    /\ emitted[4].token = EOF


(***************************************************************************)
(* The keyword table and the run of letters and underscores, for C12.      *)
(***************************************************************************)
KeywordOrIdentifier(text) ==
    CASE text = <<"f", "n">> -> Tok("Function")
      [] text = <<"l", "e", "t">> -> Tok("Let")
      [] text = <<"t", "r", "u", "e">> -> Tok("True")
      [] text = <<"f", "a", "l", "s", "e">> -> Tok("False")
      [] text = <<"i", "f">> -> Tok("If")
      [] text = <<"e", "l", "s", "e">> -> Tok("Else")
      [] text = <<"r", "e", "t", "u", "r", "n">> -> Tok("Return")
      [] OTHER -> [type |-> "Ident", text |-> text]

\* The byte is an ASCII letter or an underscore
LetterOrUnderscore(b) == b \in Lower \cup Upper \cup {"_"}

\* The offset after the maximal run of letters and underscores that starts
\* at offset k
RunEnd(k) ==
    CHOOSE e \in k .. Len(lexer.input) :
        /\ \A j \in k .. (e - 1) : LetterOrUnderscore(ByteAt(j))
        /\ ~LetterOrUnderscore(ByteAt(e))

(***************************************************************************)
(* C12: a next_token call that finds a letter or an underscore under the   *)
(* cursor consumes the maximal run of letters and underscores from there,  *)
(* not a byte more, and returns the keyword the run spells, or             *)
(* Identifier(run) when it spells none.                                    *)
(***************************************************************************)
C12_IdentifierOrKeyword ==
    \A i \in DOMAIN emitted :
        LET c == emitted[i]
        IN  LetterOrUnderscore(c.ch) =>
                /\ ~c.panic
                /\ ByteAt(c.start) = c.ch
                /\ c.end = RunEnd(c.start)
                /\ c.token =
                     KeywordOrIdentifier(SubSeq(lexer.input, c.start + 1, c.end))

\* `letx5` scanned as Identifier(letx), Int(5); `Let` is an identifier
C12_Witness ==
    /\ lexer.input = <<"l", "e", "t", "x", "5">>
    /\ Len(emitted) = 2
    /\ emitted[1].token = IdentTok(<<"l", "e", "t", "x">>)
    /\ emitted[1].end = 4
    /\ emitted[2].token = IntTok(<<"5">>)


(***************************************************************************)
(* Whitespace, for C13.                                                    *)
(***************************************************************************)
\* Space, tab, newline, carriage return
WhitespaceBytes == {" ", "\t", "\n", "\r"}

WhitespaceOnly == \A k \in DOMAIN lexer.input : lexer.input[k] \in WhitespaceBytes

\* The offset the call before the i-th left the cursor at
EndBefore(i) == IF i = 1 THEN 0 ELSE emitted[i - 1].end

(***************************************************************************)
(* C13: for a source of whitespace bytes only, the empty source included,  *)
(* the first token is EOF; and whitespace never produces a token: no call  *)
(* classifies a whitespace byte, no lexeme holds one, and whitespace is    *)
(* all that lies between a call's lexeme and the one of the call before.   *)
(***************************************************************************)
C13_WhitespaceProducesNoToken ==
    /\ (WhitespaceOnly /\ Len(emitted) >= 1) =>
          /\ ~emitted[1].panic
          /\ emitted[1].token = EOF
          /\ emitted[1].start = Len(lexer.input)
    /\ \A i \in DOMAIN emitted :
          /\ emitted[i].ch \notin WhitespaceBytes
          /\ \A k \in emitted[i].start .. (emitted[i].end - 1) :
                ByteAt(k) \notin WhitespaceBytes
          /\ \A k \in EndBefore(i) .. (emitted[i].start - 1) :
                ByteAt(k) \in WhitespaceBytes

\* space, tab, newline scanned as EOF
C13_Witness ==
    /\ lexer.input = <<" ", "\t", "\n">>
    /\ Len(emitted) = 1
    /\ emitted[1].token = EOF
    /\ emitted[1].start = 3


(***************************************************************************)
(* C14: for the empty source parse_program parses no statement and         *)
(* returns a Program of zero statements; and a Program of zero statements  *)
(* renders as the empty string.                                            *)
(***************************************************************************)
C14_EmptyProgram ==
    mode = "parse" =>
        /\ lexer.input = <<>> =>
              /\ pc \in {"new", "parse_program", "done"}
              /\ started = 0
              /\ statements = <<>>
              /\ pc = "done" => result = Ok(<<>>)
        /\ (pc = "done" /\ Len(result.program) = 0) =>
              RenderProgram(result.program) = <<>>

C14_Witness ==
    /\ mode = "parse"
    /\ lexer.input = <<>>
    /\ pc = "done"
    /\ result = Ok(<<>>)
    /\ started = 0
    /\ RenderProgram(result.program) = <<>>


(***************************************************************************)
(* Infix operators and their precedences, for C15.                         *)
(***************************************************************************)
\* The precedence a token has as an infix operator; Lowest when it is none
InfixPrecedence(token) ==
    CASE token.type \in {"Equal", "NotEqual"} -> OperatorPrecedence("Equals")
      [] token.type \in {"LessThan", "GreaterThan"} ->
             OperatorPrecedence("LessGreater")
      [] token.type \in {"Plus", "Minus"} -> OperatorPrecedence("Sum")
      [] token.type \in {"Asterisk", "Slash"} -> OperatorPrecedence("Product")
      [] token.type = "LParen" -> OperatorPrecedence("Call")
      [] OTHER -> OperatorPrecedence("Lowest")

\* The stream is <identifier> <infix operator> <identifier>, with or without
\* a `;` after it
InfixExpressionSource(scanned) ==
    /\ ~scanned.aborted
    /\ Len(scanned.tokens) \in {4, 5}
    /\ scanned.tokens[1].type = "Ident"
    /\ InfixPrecedence(scanned.tokens[2]) > OperatorPrecedence("Lowest")
    /\ scanned.tokens[3].type = "Ident"
    /\ Len(scanned.tokens) = 5 => scanned.tokens[4] = Semicolon
    /\ scanned.tokens[Len(scanned.tokens)] = EOF

(***************************************************************************)
(* C15: parse_expression(Lowest) climbs precedences: when it has returned  *)
(* to parse_expression_statement the peek token is no infix operator of a  *)
(* precedence above Lowest, and a source <identifier> <infix operator>     *)
(* <identifier> is parsed as one expression statement.                     *)
(***************************************************************************)
C15_PrecedenceClimbing ==
    mode = "parse" =>
        /\ (pc = "push" /\ statement.kind = "Expression"
                /\ current_token # Semicolon) =>
              InfixPrecedence(peek_token) <= OperatorPrecedence("Lowest")
        /\ Call(InfixExpressionSource, Toks) =>
              /\ pc # "error"
              /\ pc = "done" =>
                    /\ Len(result.program) = 1
                    /\ result.program[1].kind = "Expression"


(***************************************************************************)
(* The parser's window on the token stream, for C16.                       *)
(***************************************************************************)
\* current_token and peek_token are the tokens i and i+1 of the stream, and
\* the token the lexer returns next is the token i+2
WindowAt(scanned, i) ==
    LET n == Len(scanned.tokens)
        r == NextToken(lexer)
    IN  /\ i + 1 <= n \/ ~scanned.aborted
        /\ current_token = scanned.tokens[Min(i, n)]
        /\ peek_token = scanned.tokens[Min(i + 1, n)]
        /\ IF r.panic
           THEN scanned.aborted /\ i + 1 = n
           ELSE i + 2 <= n \/ ~scanned.aborted
        /\ ~r.panic => r.token = scanned.tokens[Min(i + 2, n)]

\* The parser was constructed
Constructed == mode = "parse" /\ cur_index >= 1

(***************************************************************************)
(* C16: once the Parser is constructed, current_token and peek_token are   *)
(* two consecutive tokens of the scanner's stream, the first and the       *)
(* second right after construction, and the scanner is about to return     *)
(* the token after them; a step that advances the parser moves both one    *)
(* token down the stream: no token is skipped, duplicated or reordered.    *)
(***************************************************************************)
C16_TwoTokenLookahead ==
    /\ [](Constructed => Call(LAMBDA t : WindowAt(t, cur_index), Toks))
    /\ []((mode = "parse" /\ pc = "parse_program" /\ started = 0) => cur_index = 1)
    /\ [][ (Constructed /\ lexer' # lexer) =>
              /\ current_token' = peek_token
              /\ peek_token' = last_call'.token
              /\ last_call'.start >= lexer.position
              /\ lexer'.position = last_call'.end
              /\ cur_index' = cur_index + 1 \/ current_token' = EOF
         ]_vars

\* `let x=5;` with the window on `=` and `5`
C16_Witness ==
    /\ mode = "parse"
    /\ cur_index = 3
    /\ current_token = Tok("Assign")
    /\ peek_token = IntTok(<<"5">>)
    /\ NextToken(lexer).token = Semicolon


(***************************************************************************)
(* The `;` that ends a let or return statement, for C17.                   *)
(***************************************************************************)
\* The index of the first `;` of the stream at or after index i, 0 if none
FirstSemicolonFrom(tokens, i) ==
    IF \E j \in i .. Len(tokens) : tokens[j] = Semicolon
    THEN CHOOSE j \in i .. Len(tokens) :
             /\ tokens[j] = Semicolon
             /\ \A k \in i .. (j - 1) : tokens[k] # Semicolon
    ELSE 0

\* The index of the `;` that ends the statement of the given kind that
\* starts at index i: the first after `let <identifier> =`, or after `return`
EndOfStatement(tokens, kind, i) ==
    FirstSemicolonFrom(tokens, IF kind = "Let" THEN i + 3 ELSE i + 1)

\* A let or return statement was just parsed: the parser stands on its `;`
\* and the node depends on nothing between `=` / `return` and that `;`
SkippedToSemicolon(scanned) ==
    LET end == EndOfStatement(scanned.tokens, statement.kind, stmt_start)
    IN  /\ end > 0
        /\ cur_index = end
        /\ current_token = Semicolon
        /\ statement.kind = "Let" =>
              /\ statement.token = Tok("Let")
              /\ statement.name.token = scanned.tokens[stmt_start + 1]
              /\ statement.name.value = scanned.tokens[stmt_start + 1].text
              /\ statement.value = PlaceholderValue
        /\ statement.kind = "Return" =>
              /\ statement.token = Tok("Return")
              /\ statement.value = PlaceholderValue

\* The statement before the one about to be parsed is a let or a return
AfterLetOrReturn ==
    /\ mode = "parse"
    /\ pc = "parse_statement"
    /\ Len(statements) >= 1
    /\ statements[Len(statements)].kind \in {"Let", "Return"}

(***************************************************************************)
(* C17: when a let or return statement has been parsed the parser has      *)
(* consumed the tokens up to and including the first `;` that follows      *)
(* `let <identifier> =` or `return`, the node does not depend on the       *)
(* tokens discarded, and the next statement is parsed from the token       *)
(* right after that `;`.                                                   *)
(***************************************************************************)
C17_SkipToSemicolon ==
    /\ []((mode = "parse" /\ pc = "push" /\ statement.kind \in {"Let", "Return"})
            => Call(SkippedToSemicolon, Toks))
    /\ [][ AfterLetOrReturn =>
              stmt_start' =
                  EndOfStatement(Toks.tokens, statements[Len(statements)].kind,
                                 stmt_start) + 1
         ]_vars

\* `let y_ = x+5;` and a second statement that starts right after its `;`
C17_Witness ==
    /\ mode = "parse"
    /\ started = 2
    /\ stmt_start = 8
    /\ Len(statements) >= 1
    /\ statements[1].kind = "Let"
    /\ statements[1].name.value = <<"y", "_">>


(***************************************************************************)
(* The bytes of a token's lexeme, for C18.                                 *)
(***************************************************************************)
\* The number of bytes of the lexeme of a token: the text of an identifier
\* or an integer, two bytes for `==` and `!=`, one byte for the rest (for
\* EOF the byte 0 it was read from)
LexemeLength(token) ==
    CASE token.type \in {"Ident", "Int"} -> Len(token.text)
      [] token.type = "Let" -> 3
      [] token.type = "Function" -> 2
      [] token.type = "True" -> 4
      [] token.type = "False" -> 5
      [] token.type = "If" -> 2
      [] token.type = "Else" -> 4
      [] token.type = "Return" -> 6
      [] token.type \in {"Equal", "NotEqual"} -> 2
      [] OTHER -> 1

\* Every byte of the source is one next_token has an arm for
AllRecognized == \A k \in DOMAIN lexer.input : Recognized(lexer.input[k])

\* The i-th call was made with the cursor before the end of the source
BeforeEnd(i) == EndBefore(i) < Len(lexer.input)

(***************************************************************************)
(* C18: every next_token call made with the cursor before the end of the   *)
(* source returns, with the cursor at least one byte further and not past  *)
(* the lexeme it returns; for a source of n recognized bytes one of the    *)
(* first n+1 calls returns EOF; and the token loop of the shell ends by    *)
(* reading EOF for every line.                                             *)
(***************************************************************************)
C18_ScannerProgress ==
    /\ \A i \in DOMAIN emitted :
          BeforeEnd(i) =>
              /\ ~emitted[i].panic
              /\ emitted[i].end >= EndBefore(i) + 1
              /\ emitted[i].end = emitted[i].start + LexemeLength(emitted[i].token)
    /\ (AllRecognized /\ Len(emitted) >= Len(lexer.input) + 1) =>
          \E j \in 1 .. (Len(lexer.input) + 1) : emitted[j].token = EOF
    /\ mode = "repl" =>
          /\ pc # "panic"
          /\ Len(printed) <= Len(lexer.input)

=============================================================================
